---- MODULE Spec2Model ----
(***************************************************************************)
(* Model of the mail digest scripts of clawdbot:                           *)
(*   scripts/gmail-digest.py      the per-message pipeline                 *)
(*   scripts/gmail-digest-all.py  the whole-run (batch) variant            *)
(*                                                                         *)
(* Message identifiers are the naturals 1..NumMsgs; their numeric order    *)
(* stands for the lexicographic order Python's sorted() gives the id       *)
(* strings.  A text is a sequence of one-character strings.                *)
(***************************************************************************)
EXTENDS Integers, Sequences, FiniteSets

\* ---------------------------------------------------------------- bounds
\* Number of distinct messages on the mail account.
NumMsgs == 3
\* Most messages one search returns.
MaxEmails == 2
\* save_seen_ids keeps sorted(ids)[-500:]; the model keeps the last SeenCap
\* so that a run can accumulate more identifiers than the cap.
SeenCap == 2
\* send_tg of gmail-digest-all.py splits at 4000 characters and accepts a
\* newline as cut position from 2000 on; the model counts in units that keep
\* the ratio, so that every payload around the limit can be enumerated.
Limit == 4
MinCut == 2
\* Longest payload handed to send_tg: long enough for three chunks.
MaxLen == 9
\* extract_article_urls drops a URL shorter than 20 characters; the model counts
\* the characters past the scheme and scales the threshold with the URLs.
MinUrlLen == 4

\* ------------------------------------------------------------- constants
\* MAX_URLS of gmail-digest.py and the 2 of good[:2] of gmail-digest-all.py.
MAX_URLS == 3
BatchMaxUrls == 2

Msgs == 1..NumMsgs

\* ------------------------------------------------------------- variables
VARIABLES
    \* gmail-digest.py: program state
    pc,         \* position of main()/process_email()
    stateFile,  \* identifiers held by STATE_FILE (a missing file holds none)
    seen_ids,   \* main()'s seen_ids set
    emails,     \* result of search_new_emails()
    idx,        \* position of the for loop of main() in emails
    msg_id,     \* process_email()'s msg_id (0 outside process_email)
    summary,    \* process_email()'s summary: "none" before call_ai, "text", "empty"
    unread,     \* messages carrying the UNREAD label on the mail account
    \* gmail-digest.py: what the current run has done so far
    readCalls,  \* get_email_body was called for these
    readEmpty,  \* get_email_body returned {} for these
    fetchCalls, \* fetch_article was called for a URL of these
    aiCalls,    \* call_ai was called for these
    sendOk,     \* send_tg returned True for these
    sendFail,   \* send_tg returned False for these
    markCalls,  \* mark_as_read was called for these
    \* gmail-digest.py: history across runs
    prevFailed, \* sendFail of the previous run, when that run completed
    everSaved,  \* identifiers some earlier save_seen_ids wrote to the file
    order,      \* identifiers of seen_ids, oldest insertion first
    \* gmail-digest.py: configuration and the call in progress
    bot_token,  \* BOT_TOKEN of the run is set
    loaded,     \* what load_seen_ids returned to the run
    chain,      \* call_ai: the providers called and what each returned
    tg_text,    \* process_email's tg_text: "none", "summary" or "snippet"
    \* gmail-digest-all.py: program state
    b_pc,       \* position of the script / of send_tg
    b_emails,   \* emails: result of the search
    b_idx,      \* position of the current for loop (reading, marking)
    all_emails, \* all_emails: identifiers of the messages read
    purpose,    \* which call of send_tg is running
    payload,    \* the argument send_tg was called with
    text,       \* send_tg's text: what the splitting loop has left
    parts,      \* send_tg's parts
    posted,     \* texts the sendMessage requests carried, in request order
    answers,    \* the endpoint's answer to each of them
    b_ok,       \* send_tg's return value: "none" until it returns
    b_marked,   \* mark_as_read was called for these
    b_chain,    \* call_ai: the providers called and what each returned
    \* send_tg of gmail-digest.py, called on its own
    t_pc,       \* position of send_tg
    t_token,    \* BOT_TOKEN is set
    t_payload,  \* the argument send_tg was called with
    t_text,     \* send_tg's text
    t_posted,   \* <<parse mode, text>> of the sendMessage requests, in order
    t_answers,  \* the endpoint's answer to each of them
    t_ok,       \* send_tg's return value: "none" until it returns
    \* two runs of gmail-digest.py on one state file and one mail account
    c_file,     \* identifiers held by STATE_FILE
    c_unread,   \* messages carrying the UNREAD label
    c_pc,       \* position of main() of each run
    c_loaded,   \* what load_seen_ids returned to each run
    c_seen,     \* seen_ids of each run
    c_emails,   \* emails of each run
    c_idx,      \* position of each run's for loop
    c_sent,     \* messages each run delivered
    c_savers,   \* the runs that have saved, in the order of their saves
    \* extract_article_urls of either script, called on its own
    u_pc,       \* position of extract_article_urls
    u_script,   \* "digest" for gmail-digest.py, "all" for gmail-digest-all.py
    u_body,     \* urls: what re.findall found in the body, in body order
    u_k,        \* position of the for loop in urls
    u_seen,     \* seen: the keys of the URLs kept so far
    u_good,     \* good_urls
    u_result,   \* the list returned
    \* the article loop of process_email, lines 434-440, on its own
    f_pc,       \* position: in the loop or past it
    f_urls,     \* number of URLs extract_article_urls returned
    f_results,  \* outcome of fetch_article for each URL fetched so far
    f_articles  \* positions of the URLs appended to articles

pvars_but_pc == <<stateFile, seen_ids, emails, idx, msg_id, summary, unread>>
pvars == <<pc, stateFile, seen_ids, emails, idx, msg_id, summary, unread>>
plog == <<readCalls, readEmpty, fetchCalls, aiCalls, sendOk, sendFail, markCalls>>
phist == <<prevFailed, everSaved, order>>
pext == <<bot_token, loaded, chain, tg_text>>
bvars == <<b_pc, b_emails, b_idx, all_emails, purpose, payload, text, parts,
           posted, answers, b_ok, b_marked, b_chain>>
tvars == <<t_pc, t_token, t_payload, t_text, t_posted, t_answers, t_ok>>
cvars == <<c_file, c_unread, c_pc, c_loaded, c_seen, c_emails, c_idx, c_sent,
           c_savers>>
\* What the actions of gmail-digest.py and of gmail-digest-all.py leave alone.
uvars == <<u_pc, u_script, u_body, u_k, u_seen, u_good, u_result>>
fvars == <<f_pc, f_urls, f_results, f_articles>>
pframe == <<bvars, tvars, cvars, uvars, fvars>>
bframe == <<pvars, plog, phist, pext, tvars, cvars, uvars, fvars>>
vars == <<pvars, plog, phist, pext, bvars, tvars, cvars, uvars, fvars>>

\* --------------------------------------------------------------- helpers
Range(s) == {s[k] : k \in 1..Len(s)}

\* Sequences of at most n distinct elements of S: what a search can return.
DistinctSeqs(S, n) ==
    {s \in UNION {[1..k -> S] : k \in 0..n} :
        \A a, b \in 1..Len(s) : a # b => s[a] # s[b]}

\* seen_ids.add(m), on the insertion-order history.
Inserted(ord, m) == IF m \in Range(ord) THEN ord ELSE Append(ord, m)

\* save_seen_ids: the file holds sorted(ids)[-500:], the SeenCap greatest
\* identifiers.
save_seen_ids(ids) == {x \in ids : Cardinality({y \in ids : y > x}) < SeenCap}

\* A load_seen_ids that finds no file whatever was saved.
load_seen_ids_nothing(file) == {}

\* load_seen_ids: the non-empty lines of the file, none when it is missing.
load_seen_ids(file) == file

\* A process_email without the check of lines 414-415.
already_seen_never(m, seen) == FALSE

\* process_email, line 414: msg_id in seen_ids.
already_seen(m, seen) == m \in seen

\* ------------------------------------------------------------------ Init
InitPipeline ==
    /\ pc = "idle"
    /\ stateFile = {}
    /\ seen_ids = {}
    /\ emails = <<>>
    /\ idx = 1
    /\ msg_id = 0
    /\ summary = "none"
    /\ unread = Msgs
    /\ readCalls = {} /\ readEmpty = {} /\ fetchCalls = {} /\ aiCalls = {}
    /\ sendOk = {} /\ sendFail = {} /\ markCalls = {}
    /\ prevFailed = {} /\ everSaved = {} /\ order = <<>>
    /\ bot_token = TRUE /\ loaded = {} /\ chain = <<>> /\ tg_text = "none"

\* The two runs of gmail-digest.py
Runs == {1, 2}

\* send_tg of gmail-digest.py not called on its own.
SendTgIdle ==
    /\ t_pc = "off" /\ t_token = TRUE /\ t_payload = <<>> /\ t_text = <<>>
    /\ t_posted = <<>> /\ t_answers = <<>> /\ t_ok = "none"

\* extract_article_urls and the article loop not run on their own.
ExtractIdle ==
    /\ u_pc = "off" /\ u_script = "digest" /\ u_body = <<>> /\ u_k = 1
    /\ u_seen = {} /\ u_good = <<>> /\ u_result = <<>>

FetchIdle ==
    /\ f_pc = "off" /\ f_urls = 0 /\ f_results = <<>> /\ f_articles = {}

\* No second run of gmail-digest.py.
ConcurrentIdle ==
    /\ c_file = {} /\ c_unread = {}
    /\ c_pc = [r \in Runs |-> "off"]
    /\ c_loaded = [r \in Runs |-> {}]
    /\ c_seen = [r \in Runs |-> {}]
    /\ c_emails = [r \in Runs |-> <<>>]
    /\ c_idx = [r \in Runs |-> 1]
    /\ c_sent = [r \in Runs |-> {}]
    /\ c_savers = <<>>

\* gmail-digest-all.py before it is started.
BatchIdle ==
    /\ b_emails = <<>> /\ b_idx = 1 /\ all_emails = <<>>
    /\ purpose = "none" /\ payload = <<>> /\ text = <<>> /\ parts = <<>>
    /\ posted = <<>> /\ answers = <<>> /\ b_ok = "none" /\ b_marked = {}
    /\ b_chain = <<>>

Init ==
    /\ InitPipeline
    /\ ExtractIdle
    /\ FetchIdle
    /\ b_pc = "off"
    /\ BatchIdle
    /\ SendTgIdle
    /\ ConcurrentIdle

\* Positions at which no run of gmail-digest.py is going on.
Stopped == {"idle", "done", "crashed", "killed", "torn", "exit1"}

\* A main() that only warns about the missing BOT_TOKEN, as it does about the
\* missing AI keys, and goes on.
ExitNoTokenWarnOnly ==
    /\ pc \in Stopped
    /\ b_pc = "off"
    /\ t_pc = "off"
    /\ bot_token' = FALSE
    /\ seen_ids' = load_seen_ids(stateFile)
    /\ loaded' = load_seen_ids(stateFile)
    /\ pc' = "search"
    /\ emails' = <<>> /\ idx' = 1 /\ msg_id' = 0 /\ summary' = "none"
    /\ chain' = <<>> /\ tg_text' = "none"
    /\ readCalls' = {} /\ readEmpty' = {} /\ fetchCalls' = {} /\ aiCalls' = {}
    /\ sendOk' = {} /\ sendFail' = {} /\ markCalls' = {}
    /\ prevFailed' = {}
    /\ order' = SelectSeq(order, LAMBDA m : m \in stateFile)
    /\ UNCHANGED <<stateFile, unread, everSaved>>
    /\ UNCHANGED pframe

\* main(), lines 472-478, with BOT_TOKEN empty: a new process starts and leaves
\* with sys.exit(1) before load_seen_ids.
ExitNoToken ==
    /\ pc \in Stopped
    /\ b_pc = "off"
    /\ t_pc = "off"
    /\ bot_token' = FALSE
    /\ pc' = "exit1"
    /\ seen_ids' = {} /\ loaded' = {}
    /\ emails' = <<>> /\ idx' = 1 /\ msg_id' = 0 /\ summary' = "none"
    /\ chain' = <<>> /\ tg_text' = "none"
    /\ readCalls' = {} /\ readEmpty' = {} /\ fetchCalls' = {} /\ aiCalls' = {}
    /\ sendOk' = {} /\ sendFail' = {} /\ markCalls' = {}
    /\ prevFailed' = {}
    /\ UNCHANGED <<stateFile, unread, everSaved, order>>
    /\ UNCHANGED pframe

\* main(), lines 472-481, with BOT_TOKEN set: a new run starts (the previous one
\* has exited) and load_seen_ids reads the state file.
LoadSeenIds ==
    /\ pc \in Stopped
    /\ b_pc = "off"
    /\ t_pc = "off"
    /\ bot_token' = TRUE
    /\ seen_ids' = load_seen_ids(stateFile)
    /\ loaded' = load_seen_ids(stateFile)
    /\ pc' = "search"
    /\ emails' = <<>> /\ idx' = 1 /\ msg_id' = 0 /\ summary' = "none"
    /\ chain' = <<>> /\ tg_text' = "none"
    /\ readCalls' = {} /\ readEmpty' = {} /\ fetchCalls' = {} /\ aiCalls' = {}
    /\ sendOk' = {} /\ sendFail' = {} /\ markCalls' = {}
    /\ prevFailed' = IF pc = "done" THEN sendFail ELSE {}
    /\ order' = SelectSeq(order, LAMBDA m : m \in stateFile)
    /\ UNCHANGED <<stateFile, unread, everSaved>>
    /\ UNCHANGED pframe


\* search_new_emails(): the unread messages the query matches, or [] when the
\* output is empty or malformed; a timeout of the mail CLI is not caught.
SearchNewEmails ==
    /\ pc = "search"
    /\ \/ /\ \E s \in DistinctSeqs(unread, MaxEmails) : emails' = s
          /\ pc' = "loop"
       \/ /\ emails' = <<>>
          /\ pc' = "crashed"
    /\ UNCHANGED <<stateFile, seen_ids, idx, msg_id, summary, unread>>
    /\ UNCHANGED <<plog, phist>>
    /\ UNCHANGED pframe
    /\ UNCHANGED pext

\* process_email, lines 413-415: the candidate is already in seen_ids.
SkipSeen ==
    /\ pc = "loop"
    /\ idx <= Len(emails)
    /\ already_seen(emails[idx], seen_ids)
    /\ idx' = idx + 1
    /\ UNCHANGED <<pc, stateFile, seen_ids, emails, msg_id, summary, unread>>
    /\ UNCHANGED <<plog, phist>>
    /\ UNCHANGED pframe
    /\ UNCHANGED pext

\* A process_email that goes to the article loop without reading the message.
BeginEmailSkipsRead ==
    /\ pc = "loop"
    /\ idx <= Len(emails)
    /\ ~already_seen(emails[idx], seen_ids)
    /\ msg_id' = emails[idx]
    /\ summary' = "none"
    /\ pc' = "enrich"
    /\ UNCHANGED <<stateFile, seen_ids, emails, idx, unread>>
    /\ UNCHANGED <<plog, phist>>
    /\ UNCHANGED pext
    /\ UNCHANGED pframe

\* process_email, lines 413-418: the candidate is new.
BeginEmail ==
    /\ pc = "loop"
    /\ idx <= Len(emails)
    /\ ~already_seen(emails[idx], seen_ids)
    /\ msg_id' = emails[idx]
    /\ summary' = "none"
    /\ pc' = "read"
    /\ UNCHANGED <<stateFile, seen_ids, emails, idx, unread>>
    /\ UNCHANGED <<plog, phist>>
    /\ UNCHANGED pext
    /\ UNCHANGED pframe

\* A process_email that passes over an unreadable message without adding it to
\* seen_ids.
GetEmailBodyEmptyNotSeen ==
    /\ pc = "read"
    /\ readCalls' = readCalls \cup {msg_id}
    /\ \/ /\ pc' = "enrich"
          /\ UNCHANGED <<seen_ids, idx, msg_id, readEmpty, order>>
       \/ /\ readEmpty' = readEmpty \cup {msg_id}
          /\ idx' = idx + 1
          /\ msg_id' = 0
          /\ pc' = "loop"
          /\ UNCHANGED <<seen_ids, order>>
       \/ /\ pc' = "crashed"
          /\ UNCHANGED <<seen_ids, idx, msg_id, readEmpty, order>>
    /\ UNCHANGED <<stateFile, emails, summary, unread>>
    /\ UNCHANGED <<fetchCalls, aiCalls, sendOk, sendFail, markCalls>>
    /\ UNCHANGED <<prevFailed, everSaved>>
    /\ UNCHANGED pframe
    /\ UNCHANGED pext

\* process_email, lines 421-427: get_email_body gives the message, or {} (the
\* mail CLI exited non-zero or printed no valid thread), or the CLI times out.
GetEmailBody ==
    /\ pc = "read"
    /\ readCalls' = readCalls \cup {msg_id}
    /\ \/ /\ pc' = "enrich"
          /\ UNCHANGED <<seen_ids, idx, msg_id, readEmpty, order>>
       \/ /\ seen_ids' = seen_ids \cup {msg_id}
          /\ order' = Inserted(order, msg_id)
          /\ readEmpty' = readEmpty \cup {msg_id}
          /\ idx' = idx + 1
          /\ msg_id' = 0
          /\ pc' = "loop"
       \/ /\ pc' = "crashed"
          /\ UNCHANGED <<seen_ids, idx, msg_id, readEmpty, order>>
    /\ UNCHANGED <<stateFile, emails, summary, unread>>
    /\ UNCHANGED <<fetchCalls, aiCalls, sendOk, sendFail, markCalls>>
    /\ UNCHANGED <<prevFailed, everSaved>>
    /\ UNCHANGED pframe
    /\ UNCHANGED pext

\* process_email, lines 430-440: the URLs of the body are fetched, if any.
FetchArticles ==
    /\ pc = "enrich"
    /\ \E hasUrls \in BOOLEAN :
          fetchCalls' = IF hasUrls THEN fetchCalls \cup {msg_id} ELSE fetchCalls
    /\ pc' = "summarize"
    /\ UNCHANGED pvars_but_pc
    /\ UNCHANGED <<readCalls, readEmpty, aiCalls, sendOk, sendFail, markCalls>>
    /\ UNCHANGED phist
    /\ UNCHANGED pframe
    /\ UNCHANGED pext

\* The results of one provider call: a text, the empty string, or None (no
\* key, an error status, a malformed body, a timeout; all caught).
ProviderResults == {"text", "empty", "none"}

\* A call_ai that tests `result is not None` where the code tests `result`.
falls_back_on_none(result) == result = "none"

\* call_ai, line 345: `if result:` fails, so the fallback provider is called.
falls_back(result) == result # "text"

\* process_email, lines 443-444, and call_ai, lines 344-347: the prompt is built
\* and call_gemini is called; a result that is a text is returned at once.
CallGemini ==
    /\ pc = "summarize"
    /\ aiCalls' = aiCalls \cup {msg_id}
    /\ \E r \in ProviderResults :
          /\ chain' = << <<"gemini", r>> >>
          /\ IF falls_back(r)
             THEN /\ pc' = "fallback"
                  /\ UNCHANGED <<summary, tg_text>>
             ELSE /\ pc' = "send"
                  /\ summary' = (IF r = "text" THEN "text" ELSE "empty")
                  /\ tg_text' = (IF r = "text" THEN "summary" ELSE "snippet")
    /\ UNCHANGED <<stateFile, seen_ids, emails, idx, msg_id, unread>>
    /\ UNCHANGED <<readCalls, readEmpty, fetchCalls, sendOk, sendFail, markCalls>>
    /\ UNCHANGED phist
    /\ UNCHANGED <<bot_token, loaded>>
    /\ UNCHANGED pframe

\* A process_email that gives the message up when call_ai returns nothing.
CallDeepseekAborts ==
    /\ pc = "fallback"
    /\ \E r \in ProviderResults :
          /\ chain' = Append(chain, <<"deepseek", r>>)
          /\ summary' = (IF r = "text" THEN "text" ELSE "empty")
          /\ tg_text' = (IF r = "text" THEN "summary" ELSE "none")
          /\ pc' = (IF r = "text" THEN "send" ELSE "add")
    /\ UNCHANGED <<stateFile, seen_ids, emails, idx, msg_id, unread>>
    /\ UNCHANGED plog
    /\ UNCHANGED phist
    /\ UNCHANGED <<bot_token, loaded>>
    /\ UNCHANGED pframe

\* call_ai, lines 348-353, and process_email, lines 447-457: call_deepseek is
\* called; its text is the summary, anything else leaves no summary and tg_text
\* is built from the snippet.
CallDeepseek ==
    /\ pc = "fallback"
    /\ \E r \in ProviderResults :
          /\ chain' = Append(chain, <<"deepseek", r>>)
          /\ summary' = (IF r = "text" THEN "text" ELSE "empty")
          /\ tg_text' = (IF r = "text" THEN "summary" ELSE "snippet")
    /\ pc' = "send"
    /\ UNCHANGED <<stateFile, seen_ids, emails, idx, msg_id, unread>>
    /\ UNCHANGED plog
    /\ UNCHANGED phist
    /\ UNCHANGED <<bot_token, loaded>>
    /\ UNCHANGED pframe


\* The endpoint's answers to one sendMessage request: status 200, any other
\* status, or no answer (requests raises).
TgAnswers == {"ok", "rejected", "error"}

\* send_tg of gmail-digest.py, lines 389-408: True when the HTML request gets
\* 200, or when it is rejected and the plain-text request gets 200.
SendTgResult(r1, r2) == r1 = "ok" \/ (r1 = "rejected" /\ r2 = "ok")

\* process_email, lines 459-465 with a mark_as_read call whatever send_tg said.
SendTgMarkAlways ==
    /\ pc = "send"
    /\ \E r1, r2 \in TgAnswers :
          IF SendTgResult(r1, r2)
          THEN /\ sendOk' = sendOk \cup {msg_id}
               /\ UNCHANGED sendFail
          ELSE /\ sendFail' = sendFail \cup {msg_id}
               /\ UNCHANGED sendOk
    /\ pc' = "mark"
    /\ UNCHANGED pvars_but_pc
    /\ UNCHANGED <<readCalls, readEmpty, fetchCalls, aiCalls, markCalls>>
    /\ UNCHANGED phist
    /\ chain' = <<>>
    /\ UNCHANGED <<bot_token, loaded, tg_text>>
    /\ UNCHANGED pframe

\* process_email, lines 459-465: ok = send_tg(tg_text); mark_as_read follows
\* only if ok.
SendTg ==
    /\ pc = "send"
    /\ \E r1, r2 \in TgAnswers :
          IF SendTgResult(r1, r2)
          THEN /\ sendOk' = sendOk \cup {msg_id}
               /\ pc' = "mark"
               /\ UNCHANGED sendFail
          ELSE /\ sendFail' = sendFail \cup {msg_id}
               /\ pc' = "add"
               /\ UNCHANGED sendOk
    /\ UNCHANGED pvars_but_pc
    /\ UNCHANGED <<readCalls, readEmpty, fetchCalls, aiCalls, markCalls>>
    /\ UNCHANGED phist
    /\ chain' = <<>>
    /\ UNCHANGED <<bot_token, loaded, tg_text>>
    /\ UNCHANGED pframe

\* mark_as_read, lines 79-89: the mail CLI removes the UNREAD label, or exits
\* non-zero (logged by run_gog, the label stays), or times out (not caught).
MarkAsRead ==
    /\ pc = "mark"
    /\ markCalls' = markCalls \cup {msg_id}
    /\ \/ /\ unread' = unread \ {msg_id}
          /\ pc' = "add"
       \/ /\ unread' = unread
          /\ pc' = "add"
       \/ /\ unread' = unread
          /\ pc' = "crashed"
    /\ UNCHANGED <<stateFile, seen_ids, emails, idx, msg_id, summary>>
    /\ UNCHANGED <<readCalls, readEmpty, fetchCalls, aiCalls, sendOk, sendFail>>
    /\ UNCHANGED phist
    /\ UNCHANGED pframe
    /\ UNCHANGED pext

\* process_email, lines 467-468, and the loop of main, lines 488-490.
AddSeen ==
    /\ pc = "add"
    /\ seen_ids' = seen_ids \cup {msg_id}
    /\ order' = Inserted(order, msg_id)
    /\ idx' = idx + 1
    /\ msg_id' = 0
    /\ pc' = "loop"
    /\ UNCHANGED <<stateFile, emails, summary, unread>>
    /\ UNCHANGED plog
    /\ UNCHANGED <<prevFailed, everSaved>>
    /\ tg_text' = "none"
    /\ UNCHANGED <<bot_token, loaded, chain>>
    /\ UNCHANGED pframe

\* A main that saves only the identifiers this run added.
SaveSeenIdsOnlyNew ==
    /\ pc = "loop"
    /\ idx > Len(emails)
    /\ stateFile' = save_seen_ids(seen_ids \ loaded)
    /\ everSaved' = everSaved \cup save_seen_ids(seen_ids \ loaded)
    /\ pc' = "done"
    /\ UNCHANGED <<seen_ids, emails, idx, msg_id, summary, unread>>
    /\ UNCHANGED plog
    /\ UNCHANGED <<prevFailed, order>>
    /\ UNCHANGED pext
    /\ UNCHANGED pframe

\* main, lines 492-493: the loop is over, save_seen_ids writes the file.
SaveSeenIds ==
    /\ pc = "loop"
    /\ idx > Len(emails)
    /\ stateFile' = save_seen_ids(seen_ids)
    /\ everSaved' = everSaved \cup save_seen_ids(seen_ids)
    /\ pc' = "done"
    /\ UNCHANGED <<seen_ids, emails, idx, msg_id, summary, unread>>
    /\ UNCHANGED plog
    /\ UNCHANGED <<prevFailed, order>>
    /\ UNCHANGED pext
    /\ UNCHANGED pframe

\* The steps of a run up to the save.
NextRun ==
    \/ ExitNoToken
    \/ LoadSeenIds
    \/ SearchNewEmails
    \/ SkipSeen
    \/ BeginEmail
    \/ GetEmailBody
    \/ FetchArticles
    \/ CallGemini
    \/ CallDeepseek
    \/ SendTg
    \/ MarkAsRead
    \/ AddSeen

Next ==
    \/ NextRun
    \/ SaveSeenIds

Spec == Init /\ [][Next]_vars

\* ------------------------------------------- a run stopped from outside
\* save_seen_ids in the steps an interruption can fall between.
\* main, line 492, and save_seen_ids, lines 102-104: the loop is over and
\* open(STATE_FILE, 'w') empties the file.
OpenStateFile ==
    /\ pc = "loop"
    /\ idx > Len(emails)
    /\ stateFile' = {}
    /\ pc' = "saving"
    /\ UNCHANGED <<seen_ids, emails, idx, msg_id, summary, unread>>
    /\ UNCHANGED plog
    /\ UNCHANGED phist
    /\ UNCHANGED pext
    /\ UNCHANGED pframe

\* save_seen_ids, line 105, and main, line 493: the identifiers are written,
\* the file is closed and the run ends.
WriteStateFile ==
    /\ pc = "saving"
    /\ stateFile' = save_seen_ids(seen_ids)
    /\ everSaved' = everSaved \cup save_seen_ids(seen_ids)
    /\ pc' = "done"
    /\ UNCHANGED <<seen_ids, emails, idx, msg_id, summary, unread>>
    /\ UNCHANGED plog
    /\ UNCHANGED <<prevFailed, order>>
    /\ UNCHANGED pext
    /\ UNCHANGED pframe

\* The lines of the file are written in sorted order: the k least of ids.
FirstLines(ids, k) == {x \in ids : Cardinality({y \in ids : y < x}) < k}

\* The process is stopped from outside (a signal, a reboot).  Before the save
\* nothing of the run is kept; during the write the file is left with the lines
\* written so far, which may be none.
Interrupt ==
    /\ pc \in {"search", "loop", "read", "enrich", "summarize", "fallback",
               "send", "mark", "add", "saving"}
    /\ IF pc = "saving"
       THEN /\ pc' = "torn"
            /\ \E k \in {0} \cup 0..(Cardinality(save_seen_ids(seen_ids)) - 1) :
                  stateFile' = FirstLines(save_seen_ids(seen_ids), k)
       ELSE /\ pc' = "killed"
            /\ UNCHANGED stateFile
    /\ UNCHANGED <<seen_ids, emails, idx, msg_id, summary, unread>>
    /\ UNCHANGED plog
    /\ UNCHANGED phist
    /\ UNCHANGED pext
    /\ UNCHANGED pframe


\* The per-message pipeline with runs that can be stopped from outside.
NextInterrupted ==
    \/ NextRun
    \/ OpenStateFile
    \/ WriteStateFile
    \/ Interrupt

SpecInterrupted == Init /\ [][NextInterrupted]_vars

\* ------------------------------------------------------ gmail-digest-all.py
NL == "\n"
\* The characters of a payload: a newline and two others.
Chars == {"a", "b", NL}
\* Every text of at most n characters.
Texts(n) == UNION {[1..k -> Chars] : k \in 0..n}

\* s[:n] and s[n:] of Python, for 0 <= n.
Take(s, n) == SubSeq(s, 1, IF n < Len(s) THEN n ELSE Len(s))
Drop(s, n) == SubSeq(s, n + 1, Len(s))

\* s.rfind(ch): the 0-based position of the last ch in s, -1 when there is none.
RFind(s, ch) ==
    IF \E k \in 1..Len(s) : s[k] = ch
    THEN (CHOOSE k \in 1..Len(s) :
             s[k] = ch /\ \A j \in (k + 1)..Len(s) : s[j] # ch) - 1
    ELSE -1

\* s.lstrip('\n')
RECURSIVE LStrip(_)
LStrip(s) == IF s # <<>> /\ Head(s) = NL THEN LStrip(Tail(s)) ELSE s

\* A cut that takes one character more than the limit allows.
CutPastLimit(t) ==
    LET cut == RFind(Take(t, Limit), NL)
    IN  IF cut < MinCut THEN Limit + 1 ELSE cut

\* A cut at the last newline wherever it is, the first character included.
CutAtAnyNewline(t) ==
    LET cut == RFind(Take(t, Limit), NL)
    IN  IF cut < 0 THEN Limit ELSE cut

\* send_tg, lines 223-225: the cut position of one iteration of the loop.
Cut(t) ==
    LET cut == RFind(Take(t, Limit), NL)
    IN  IF cut < MinCut THEN Limit ELSE cut

\* A remainder that always skips the character at the cut.
RestSkipsOne(t, cut) == LStrip(Drop(t, cut + 1))

\* send_tg, line 227: text = text[cut:].lstrip('\n')
Rest(t, cut) == LStrip(Drop(t, cut))

\* send_tg, line 217: where a call with payload t starts.
SendTgEntry(t) == IF Len(t) > Limit THEN "split" ELSE "post1"

\* A script that marks the messages read after any send_tg that returned True.
AfterSendTgAlwaysMarks(why, r) ==
    CASE why = "call" -> "returned"
      [] OTHER        -> IF r = "True" THEN "mark" ELSE "done"

\* Where the script goes on when send_tg has returned r.
AfterSendTg(why, r) ==
    CASE why = "digest" -> IF r = "True" THEN "mark" ELSE "done"
      [] why = "call"   -> "returned"
      [] OTHER          -> "done"

\* send_tg, lines 219-227: one iteration of the splitting loop.
SplitStep ==
    /\ b_pc = "split"
    /\ IF Len(text) <= Limit
       THEN /\ parts' = Append(parts, text)
            /\ text' = text
            /\ b_pc' = "post"
       ELSE /\ parts' = Append(parts, Take(text, Cut(text)))
            /\ text' = Rest(text, Cut(text))
            /\ b_pc' = IF text' = <<>> THEN "post" ELSE "split"
    /\ UNCHANGED <<b_emails, b_idx, all_emails, purpose, payload, posted, answers,
                   b_ok, b_marked, b_chain>>
    /\ UNCHANGED bframe

\* send_tg, lines 228-236: the next part is posted and the answer dropped; after
\* the last part send_tg returns True.  A request that raises ends the script.
PostPart ==
    /\ b_pc = "post"
    /\ LET k == Len(posted) + 1 IN
       \E a \in TgAnswers :
          /\ posted' = Append(posted, parts[k])
          /\ answers' = Append(answers, a)
          /\ IF a = "error"
             THEN b_pc' = "crashed" /\ b_ok' = b_ok
             ELSE IF k < Len(parts)
                  THEN b_pc' = "post" /\ b_ok' = b_ok
                  ELSE b_pc' = AfterSendTg(purpose, "True") /\ b_ok' = "True"
    /\ UNCHANGED <<b_emails, b_idx, all_emails, purpose, payload, text, parts, b_marked,
                   b_chain>>
    /\ UNCHANGED bframe

\* send_tg, lines 237-242: a payload within the limit is posted whole and the
\* status decides the result.
PostWhole ==
    /\ b_pc = "post1"
    /\ \E a \in TgAnswers :
          /\ posted' = Append(posted, text)
          /\ answers' = Append(answers, a)
          /\ IF a = "error"
             THEN b_pc' = "crashed" /\ b_ok' = b_ok
             ELSE LET r == IF a = "ok" THEN "True" ELSE "False"
                  IN  b_pc' = AfterSendTg(purpose, r) /\ b_ok' = r
    /\ UNCHANGED <<b_emails, b_idx, all_emails, purpose, payload, text, parts, b_marked,
                   b_chain>>
    /\ UNCHANGED bframe

\* send_tg called on its own with any payload.
InitSendTg ==
    /\ InitPipeline
    /\ ExtractIdle
    /\ FetchIdle
    /\ b_emails = <<>> /\ b_idx = 1 /\ all_emails = <<>> /\ b_marked = {}
    /\ purpose = "call"
    /\ payload \in Texts(MaxLen)
    /\ text = payload
    /\ parts = <<>> /\ posted = <<>> /\ answers = <<>> /\ b_ok = "none"
    /\ b_chain = <<>>
    /\ b_pc = SendTgEntry(payload)
    /\ SendTgIdle
    /\ ConcurrentIdle

NextSendTg ==
    \/ SplitStep
    \/ PostPart
    \/ PostWhole

SpecSendTg == InitSendTg /\ [][NextSendTg]_vars

\* The two fixed notices of the script, lines 254 and 321: short, no newline.
NoUnreadNotice == <<"a">>
FailureNotice == <<"b">>

\* full_text, lines 308-309: the header, which starts with a printing
\* character, followed by the provider's free text; up to two characters past
\* the limit, which send_tg splits.
Digests ==
    {<<"a">> \o t : t \in UNION {[1..k -> {"a", NL}] : k \in 0..(Limit + 1)}}

\* Lines 246-256: the search; with no unread message the notice is sent and the
\* script exits.  A timeout of the mail CLI is not caught.
BatchSearch ==
    /\ b_pc = "search"
    /\ \/ \E s \in DistinctSeqs(Msgs, MaxEmails) :
             /\ b_emails' = s
             /\ IF s = <<>>
                THEN /\ purpose' = "no_unread"
                     /\ payload' = NoUnreadNotice
                     /\ text' = NoUnreadNotice
                     /\ b_pc' = SendTgEntry(NoUnreadNotice)
                ELSE /\ b_pc' = "read"
                     /\ UNCHANGED <<purpose, payload, text>>
       \/ /\ b_pc' = "crashed"
          /\ UNCHANGED <<b_emails, purpose, payload, text>>
    /\ UNCHANGED <<b_idx, all_emails, parts, posted, answers, b_ok, b_marked, b_chain>>
    /\ UNCHANGED bframe

\* Lines 260-277: one message of the reading loop: read and kept, or unreadable
\* and skipped, or the mail CLI times out.
BatchRead ==
    /\ b_pc = "read"
    /\ b_idx <= Len(b_emails)
    /\ \/ /\ all_emails' = Append(all_emails, b_emails[b_idx])
          /\ b_idx' = b_idx + 1
          /\ b_pc' = "read"
       \/ /\ all_emails' = all_emails
          /\ b_idx' = b_idx + 1
          /\ b_pc' = "read"
       \/ /\ b_pc' = "crashed"
          /\ UNCHANGED <<all_emails, b_idx>>
    /\ UNCHANGED <<b_emails, purpose, payload, text, parts, posted, answers, b_ok,
                   b_marked, b_chain>>
    /\ UNCHANGED bframe

\* Line 305 and call_ai, lines 209-212: the reading loop is over and
\* call_gemini is called; a result that is a text is returned at once.
BatchCallGemini ==
    /\ b_pc = "read"
    /\ b_idx > Len(b_emails)
    /\ \E r \in ProviderResults :
          /\ b_chain' = << <<"gemini", r>> >>
          /\ b_pc' = IF falls_back(r) THEN "fallback" ELSE "summarized"
    /\ UNCHANGED <<b_emails, b_idx, all_emails, purpose, payload, text, parts,
                   posted, answers, b_ok, b_marked>>
    /\ UNCHANGED bframe

\* call_ai, lines 213-214: whatever call_deepseek returns is returned.
BatchCallDeepseek ==
    /\ b_pc = "fallback"
    /\ \E r \in ProviderResults : b_chain' = Append(b_chain, <<"deepseek", r>>)
    /\ b_pc' = "summarized"
    /\ UNCHANGED <<b_emails, b_idx, all_emails, purpose, payload, text, parts,
                   posted, answers, b_ok, b_marked>>
    /\ UNCHANGED bframe

\* What call_ai returned: the result of the last provider called.
Returned(ch) == ch[Len(ch)][2]

\* Lines 307-311 and 320-321: a summary goes to send_tg under the digest's
\* header; without one the failure notice goes to send_tg.
BatchSendSummary ==
    /\ b_pc = "summarized"
    /\ IF Returned(b_chain) = "text"
       THEN \E full_text \in Digests :
               /\ purpose' = "digest"
               /\ payload' = full_text
               /\ text' = full_text
               /\ b_pc' = SendTgEntry(full_text)
       ELSE /\ purpose' = "failed"
            /\ payload' = FailureNotice
            /\ text' = FailureNotice
            /\ b_pc' = SendTgEntry(FailureNotice)
    /\ b_chain' = <<>>
    /\ UNCHANGED <<b_emails, b_idx, all_emails, parts, posted, answers, b_ok,
                   b_marked>>
    /\ UNCHANGED bframe

\* Lines 312-317: ok was True; mark_as_read for the next message of all_emails
\* (the mail CLI may time out, which is not caught), then the script ends.
BatchMarkAsRead ==
    /\ b_pc = "mark"
    /\ LET k == Cardinality(b_marked) + 1 IN
       IF k > Len(all_emails)
       THEN /\ b_pc' = "done"
            /\ UNCHANGED b_marked
       ELSE /\ b_marked' = b_marked \cup {all_emails[k]}
            /\ \/ b_pc' = (IF k = Len(all_emails) THEN "done" ELSE "mark")
               \/ b_pc' = "crashed"
    /\ UNCHANGED <<b_emails, b_idx, all_emails, purpose, payload, text, parts,
                   posted, answers, b_ok, b_chain>>
    /\ UNCHANGED bframe

InitBatch ==
    /\ InitPipeline
    /\ ExtractIdle
    /\ FetchIdle
    /\ b_pc = "search"
    /\ BatchIdle
    /\ SendTgIdle
    /\ ConcurrentIdle

NextBatch ==
    \/ BatchSearch
    \/ BatchRead
    \/ BatchCallGemini
    \/ BatchCallDeepseek
    \/ BatchSendSummary
    \/ SplitStep
    \/ PostPart
    \/ PostWhole
    \/ BatchMarkAsRead

SpecBatch == InitBatch /\ [][NextBatch]_vars

\* Both scripts: a start of either one.
InitScripts == Init \/ InitBatch

NextScripts ==
    \/ Next
    \/ NextBatch

SpecScripts == InitScripts /\ [][NextScripts]_vars

\* ------------------------------------------- send_tg of gmail-digest.py
\* tg_text of process_email: texts of up to two characters past the limit.
TgTexts == Texts(Limit + 2)

\* send_tg, lines 384-385: text[:3997] + '...' for a text longer than the limit.
Ellipsis == <<".", ".", ".">>
Truncated(t) == IF Len(t) > Limit THEN Take(t, Limit - 3) \o Ellipsis ELSE t

\* send_tg, lines 380-385: without BOT_TOKEN it returns False; otherwise the
\* text is cut down to the limit.
TgPrepare ==
    /\ t_pc = "entry"
    /\ IF t_token
       THEN /\ t_text' = Truncated(t_payload)
            /\ t_pc' = "html"
            /\ t_ok' = t_ok
       ELSE /\ t_text' = t_text
            /\ t_pc' = "returned"
            /\ t_ok' = "False"
    /\ UNCHANGED <<t_token, t_payload, t_posted, t_answers>>
    /\ UNCHANGED <<pvars, plog, phist, pext, bvars, cvars, uvars, fvars>>

\* A send_tg that also sends the plain text after a request that raised.
TgPostHtmlRetriesOnError ==
    /\ t_pc = "html"
    /\ \E a \in TgAnswers :
          /\ t_posted' = Append(t_posted, <<"HTML", t_text>>)
          /\ t_answers' = Append(t_answers, a)
          /\ t_pc' = IF a = "ok" THEN "returned" ELSE "plain"
          /\ t_ok' = IF a = "ok" THEN "True" ELSE t_ok
    /\ UNCHANGED <<t_token, t_payload, t_text>>
    /\ UNCHANGED <<pvars, plog, phist, pext, bvars, cvars, uvars, fvars>>

\* send_tg, lines 387-395 and 405-407: the request with parse_mode HTML; 200
\* returns True, a request that raises returns False.
TgPostHtml ==
    /\ t_pc = "html"
    /\ \E a \in TgAnswers :
          /\ t_posted' = Append(t_posted, <<"HTML", t_text>>)
          /\ t_answers' = Append(t_answers, a)
          /\ t_pc' = IF a = "rejected" THEN "plain" ELSE "returned"
          /\ t_ok' = CASE a = "ok"       -> "True"
                       [] a = "error"    -> "False"
                       [] a = "rejected" -> t_ok
    /\ UNCHANGED <<t_token, t_payload, t_text>>
    /\ UNCHANGED <<pvars, plog, phist, pext, bvars, cvars, uvars, fvars>>

\* send_tg, lines 396-407: the same text without parse_mode; the status
\* decides the result.
TgPostPlain ==
    /\ t_pc = "plain"
    /\ \E a \in TgAnswers :
          /\ t_posted' = Append(t_posted, <<"plain", t_text>>)
          /\ t_answers' = Append(t_answers, a)
          /\ t_ok' = IF a = "ok" THEN "True" ELSE "False"
    /\ t_pc' = "returned"
    /\ UNCHANGED <<t_token, t_payload, t_text>>
    /\ UNCHANGED <<pvars, plog, phist, pext, bvars, cvars, uvars, fvars>>

InitTg ==
    /\ InitPipeline
    /\ ExtractIdle
    /\ FetchIdle
    /\ b_pc = "off"
    /\ BatchIdle
    /\ ConcurrentIdle
    /\ t_pc = "entry"
    /\ t_token \in BOOLEAN
    /\ t_payload \in TgTexts
    /\ t_text = t_payload
    /\ t_posted = <<>> /\ t_answers = <<>> /\ t_ok = "none"

NextTg ==
    \/ TgPrepare
    \/ TgPostHtml
    \/ TgPostPlain

SpecTg == InitTg /\ [][NextTg]_vars

\* Delivery at both levels: the runs of gmail-digest.py, whose SendTg step is a
\* whole call of send_tg, and the calls of send_tg request by request.
InitDelivery == Init \/ InitTg

NextDelivery ==
    \/ Next
    \/ NextTg

SpecDelivery == InitDelivery /\ [][NextDelivery]_vars

\* ------------------------------- two runs of gmail-digest.py at the same time
\* Each run is the main() of gmail-digest.py with process_email taken as one
\* step; the runs share the state file and the mail account and nothing else.
CFrame == <<pvars, plog, phist, pext, bvars, tvars, uvars, fvars>>

\* main, line 480: load_seen_ids.
CLoad(r) ==
    /\ c_pc[r] = "start"
    /\ c_loaded' = [c_loaded EXCEPT ![r] = load_seen_ids(c_file)]
    /\ c_seen' = [c_seen EXCEPT ![r] = load_seen_ids(c_file)]
    /\ c_pc' = [c_pc EXCEPT ![r] = "search"]
    /\ UNCHANGED <<c_file, c_unread, c_emails, c_idx, c_sent, c_savers>>
    /\ UNCHANGED CFrame

\* main, line 483: search_new_emails, which a timeout of the mail CLI ends.
CSearch(r) ==
    /\ c_pc[r] = "search"
    /\ \/ \E s \in DistinctSeqs(c_unread, MaxEmails) :
             /\ c_emails' = [c_emails EXCEPT ![r] = s]
             /\ c_pc' = [c_pc EXCEPT ![r] = "loop"]
       \/ /\ c_pc' = [c_pc EXCEPT ![r] = "crashed"]
          /\ UNCHANGED c_emails
    /\ UNCHANGED <<c_file, c_unread, c_loaded, c_seen, c_idx, c_sent, c_savers>>
    /\ UNCHANGED CFrame

\* A process_email that treats a mark_as_read that left the label like a failed
\* delivery of the spec: the message is not added to seen_ids.
CProcessUnmarkedNotSeen(r) ==
    /\ c_pc[r] = "loop"
    /\ c_idx[r] <= Len(c_emails[r])
    /\ LET m == c_emails[r][c_idx[r]] IN
       IF already_seen(m, c_seen[r])
       THEN /\ c_idx' = [c_idx EXCEPT ![r] = @ + 1]
            /\ UNCHANGED <<c_unread, c_pc, c_seen, c_sent>>
       ELSE \/ /\ c_sent' = [c_sent EXCEPT ![r] = @ \cup {m}]
               /\ \E removed \in BOOLEAN :
                     /\ c_unread' = IF removed THEN c_unread \ {m} ELSE c_unread
                     /\ c_seen' = IF removed
                                  THEN [c_seen EXCEPT ![r] = @ \cup {m}]
                                  ELSE c_seen
               /\ c_idx' = [c_idx EXCEPT ![r] = @ + 1]
               /\ UNCHANGED c_pc
            \/ /\ c_seen' = [c_seen EXCEPT ![r] = @ \cup {m}]
               /\ c_idx' = [c_idx EXCEPT ![r] = @ + 1]
               /\ UNCHANGED <<c_unread, c_pc, c_sent>>
            \/ /\ c_pc' = [c_pc EXCEPT ![r] = "crashed"]
               /\ \E delivered \in BOOLEAN :
                     c_sent' = IF delivered
                              THEN [c_sent EXCEPT ![r] = @ \cup {m}]
                              ELSE c_sent
               /\ UNCHANGED <<c_unread, c_seen, c_idx>>
    /\ UNCHANGED <<c_file, c_loaded, c_emails, c_savers>>
    /\ UNCHANGED CFrame

\* main, lines 486-490, and process_email: a candidate of seen_ids is passed
\* over; another one is delivered and marked read (the mail CLI removes the
\* label or not), or not delivered or not readable, and added to seen_ids in
\* each case; or a timeout of the mail CLI ends the run, while the message is
\* read or, after its delivery, while it is marked read.
CProcess(r) ==
    /\ c_pc[r] = "loop"
    /\ c_idx[r] <= Len(c_emails[r])
    /\ LET m == c_emails[r][c_idx[r]] IN
       IF already_seen(m, c_seen[r])
       THEN /\ c_idx' = [c_idx EXCEPT ![r] = @ + 1]
            /\ UNCHANGED <<c_unread, c_pc, c_seen, c_sent>>
       ELSE \/ /\ c_sent' = [c_sent EXCEPT ![r] = @ \cup {m}]
               /\ \E removed \in BOOLEAN :
                     c_unread' = IF removed THEN c_unread \ {m} ELSE c_unread
               /\ c_seen' = [c_seen EXCEPT ![r] = @ \cup {m}]
               /\ c_idx' = [c_idx EXCEPT ![r] = @ + 1]
               /\ UNCHANGED c_pc
            \/ /\ c_seen' = [c_seen EXCEPT ![r] = @ \cup {m}]
               /\ c_idx' = [c_idx EXCEPT ![r] = @ + 1]
               /\ UNCHANGED <<c_unread, c_pc, c_sent>>
            \/ /\ c_pc' = [c_pc EXCEPT ![r] = "crashed"]
               /\ \E delivered \in BOOLEAN :
                     c_sent' = IF delivered
                              THEN [c_sent EXCEPT ![r] = @ \cup {m}]
                              ELSE c_sent
               /\ UNCHANGED <<c_unread, c_seen, c_idx>>
    /\ UNCHANGED <<c_file, c_loaded, c_emails, c_savers>>
    /\ UNCHANGED CFrame

\* A save that adds to what the file holds.
CSaveMerging(r) ==
    /\ c_pc[r] = "loop"
    /\ c_idx[r] > Len(c_emails[r])
    /\ c_file' = save_seen_ids(c_file \cup c_seen[r])
    /\ c_savers' = Append(c_savers, r)
    /\ c_pc' = [c_pc EXCEPT ![r] = "done"]
    /\ UNCHANGED <<c_unread, c_loaded, c_seen, c_emails, c_idx, c_sent>>
    /\ UNCHANGED CFrame

\* main, line 492: save_seen_ids(seen_ids) replaces the content of the file.
CSave(r) ==
    /\ c_pc[r] = "loop"
    /\ c_idx[r] > Len(c_emails[r])
    /\ c_file' = save_seen_ids(c_seen[r])
    /\ c_savers' = Append(c_savers, r)
    /\ c_pc' = [c_pc EXCEPT ![r] = "done"]
    /\ UNCHANGED <<c_unread, c_loaded, c_seen, c_emails, c_idx, c_sent>>
    /\ UNCHANGED CFrame

\* Two runs are started on an account with MaxEmails unread messages; the
\* state file is missing or holds the first of them from an earlier run.
InitConcurrent ==
    /\ InitPipeline
    /\ ExtractIdle
    /\ FetchIdle
    /\ b_pc = "off"
    /\ BatchIdle
    /\ SendTgIdle
    /\ c_file \in {{}, {1}}
    /\ c_unread = 1..MaxEmails
    /\ c_pc = [r \in Runs |-> "start"]
    /\ c_loaded = [r \in Runs |-> {}]
    /\ c_seen = [r \in Runs |-> {}]
    /\ c_emails = [r \in Runs |-> <<>>]
    /\ c_idx = [r \in Runs |-> 1]
    /\ c_sent = [r \in Runs |-> {}]
    /\ c_savers = <<>>

NextConcurrent ==
    \E r \in Runs :
        \/ CLoad(r)
        \/ CSearch(r)
        \/ CProcess(r)
        \/ CSave(r)

SpecConcurrent == InitConcurrent /\ [][NextConcurrent]_vars

\* ------------------------------------------------- extract_article_urls
\* A URL as urlparse splits it; each part is a sequence of characters.
Url(n, p, q) == [netloc |-> n, path |-> p, query |-> q]

\* The URLs a body can hold: one article, the same article with a query, with
\* a path in other case and with a tracking word in the query; three more
\* articles; a skipped domain, a picture and a short URL.
Urls ==
    { Url(<<"a", "b", "c">>, <<"/", "x">>, <<>>),
      Url(<<"a", "b", "c">>, <<"/", "x">>, <<"?", "q">>),
      Url(<<"a", "b", "c">>, <<"/", "X">>, <<>>),
      Url(<<"a", "b", "c">>, <<"/", "x">>, <<"?", "T">>),
      Url(<<"a", "b", "c">>, <<"/", "y">>, <<>>),
      Url(<<"c", "b", "a">>, <<"/", "x">>, <<>>),
      Url(<<"d", "b", "c">>, <<"/", "x">>, <<>>),
      Url(<<"a", "b", "c">>, <<"/", "y", ".", "G">>, <<>>),
      Url(<<"a">>, <<"/">>, <<>>) }

\* A body holds up to one URL more than the greater cap.
Bodies == UNION {[1..k -> Urls] : k \in 0..(MAX_URLS + 1)}

\* The URL past its scheme.
UrlText(u) == u.netloc \o u.path \o u.query

\* str.lower()
LowerChar(c) ==
    CASE c = "X" -> "x"
      [] c = "G" -> "g"
      [] c = "T" -> "t"
      [] OTHER   -> c
Lower(str) == [k \in 1..Len(str) |-> LowerChar(str[k])]

\* pat in str
Contains(str, pat) ==
    \E i \in 0..(Len(str) - Len(pat)) : SubSeq(str, i + 1, i + Len(pat)) = pat

\* str.endswith(ext)
EndsWith(str, ext) ==
    /\ Len(str) >= Len(ext)
    /\ SubSeq(str, Len(str) - Len(ext) + 1, Len(str)) = ext

\* SKIP_URL_PATTERNS, SKIP_DOMAINS and the extensions of line 224, one of each.
SKIP_URL_PATTERNS == {<<"t">>}
SKIP_DOMAINS == {<<"d">>}
MediaExtensions == {<<".", "g">>}

\* is_tracking_url: a pattern in the lowered URL or a skipped domain in the
\* lowered network location.
is_tracking_url(u) ==
    \/ \E pat \in SKIP_URL_PATTERNS : Contains(Lower(UrlText(u)), pat)
    \/ \E sd \in SKIP_DOMAINS : Contains(Lower(u.netloc), sd)

\* Lines 216-225: the three filters of the loop.
TooShort(u) == Len(UrlText(u)) < MinUrlLen
IsMedia(u) == \E ext \in MediaExtensions : EndsWith(Lower(u.path), ext)
Rejected(u) == TooShort(u) \/ is_tracking_url(u) \/ IsMedia(u)

\* A key that keeps the query string.
KeyWithQuery(u) == u.netloc \o u.path \o u.query

\* Line 229: key = parsed.netloc + parsed.path
Key(u) == u.netloc \o u.path

\* The cap of the script: good_urls[:MAX_URLS] and good[:2].
UrlCap(script) == IF script = "digest" THEN MAX_URLS ELSE BatchMaxUrls

\* A loop that stops after as many URLs as the cap, accepted or not.
ExtractStepCountsAll ==
    /\ u_pc = "loop"
    /\ u_k <= Len(u_body)
    /\ LET url == u_body[u_k] IN
       IF Rejected(url) \/ Key(url) \in u_seen \/ u_k > UrlCap(u_script)
       THEN UNCHANGED <<u_seen, u_good>>
       ELSE /\ u_seen' = u_seen \cup {Key(url)}
            /\ u_good' = Append(u_good, url)
    /\ u_k' = u_k + 1
    /\ UNCHANGED <<u_pc, u_script, u_body, u_result>>
    /\ UNCHANGED <<pvars, plog, phist, pext, bvars, tvars, cvars, fvars>>

\* Lines 213-233: one iteration of the loop over urls.
ExtractStep ==
    /\ u_pc = "loop"
    /\ u_k <= Len(u_body)
    /\ LET url == u_body[u_k] IN
       IF Rejected(url) \/ Key(url) \in u_seen
       THEN UNCHANGED <<u_seen, u_good>>
       ELSE /\ u_seen' = u_seen \cup {Key(url)}
            /\ u_good' = Append(u_good, url)
    /\ u_k' = u_k + 1
    /\ UNCHANGED <<u_pc, u_script, u_body, u_result>>
    /\ UNCHANGED <<pvars, plog, phist, pext, bvars, tvars, cvars, fvars>>

\* Line 235: return good_urls[:MAX_URLS]
ExtractReturn ==
    /\ u_pc = "loop"
    /\ u_k > Len(u_body)
    /\ u_result' = Take(u_good, UrlCap(u_script))
    /\ u_pc' = "returned"
    /\ UNCHANGED <<u_script, u_body, u_k, u_seen, u_good>>
    /\ UNCHANGED <<pvars, plog, phist, pext, bvars, tvars, cvars, fvars>>

InitUrls ==
    /\ InitPipeline
    /\ b_pc = "off"
    /\ BatchIdle
    /\ SendTgIdle
    /\ ConcurrentIdle
    /\ FetchIdle
    /\ u_pc = "loop"
    /\ u_script \in {"digest", "all"}
    /\ u_body \in Bodies
    /\ u_k = 1 /\ u_seen = {} /\ u_good = <<>> /\ u_result = <<>>

NextUrls ==
    \/ ExtractStep
    \/ ExtractReturn

SpecUrls == InitUrls /\ [][NextUrls]_vars

\* ------------------------------------------- one run after the other
\* The two runs as the scheduler starts them: the second when the first has
\* ended.  The state file is missing or holds an older identifier.
InitSequential ==
    /\ InitPipeline
    /\ ExtractIdle
    /\ FetchIdle
    /\ b_pc = "off"
    /\ BatchIdle
    /\ SendTgIdle
    /\ c_file \in {{}, {NumMsgs}}
    /\ c_unread = 1..MaxEmails
    /\ c_pc = [r \in Runs |-> "start"]
    /\ c_loaded = [r \in Runs |-> {}]
    /\ c_seen = [r \in Runs |-> {}]
    /\ c_emails = [r \in Runs |-> <<>>]
    /\ c_idx = [r \in Runs |-> 1]
    /\ c_sent = [r \in Runs |-> {}]
    /\ c_savers = <<>>

\* The run that may take a step: the first, and the second once the first is over.
Scheduled(r) == r = 1 \/ c_pc[1] \in {"done", "crashed"}

NextSequential ==
    \E r \in Runs :
        /\ Scheduled(r)
        /\ \/ CLoad(r)
           \/ CSearch(r)
           \/ CProcess(r)
           \/ CSave(r)

SpecSequential == InitSequential /\ [][NextSequential]_vars

\* ------------------------------ the article loop of process_email
\* fetch_medium_article: the text of the helper, or None (non-zero exit, a
\* short output, a timeout or any other exception).
HelperResults == {"content", "failed"}

\* The request of fetch_article: the text, or None after a timeout, an error
\* status, a content type that is neither html nor text, or a short text.
RequestResults == {"content", "timeout", "error_status", "not_html", "too_short"}

\* What one call of fetch_article goes through: for a medium.com URL the helper
\* and, when it gave nothing, the request; for another URL the request.
FetchOutcomes ==
    {o \in [medium : BOOLEAN,
            helper : HelperResults \cup {"skipped"},
            request : RequestResults \cup {"skipped"}] :
        /\ o.medium <=> o.helper # "skipped"
        /\ o.request = "skipped" <=> o.helper = "content"}

\* fetch_article, lines 252-280: the content, or None.
fetch_article(o) ==
    IF o.helper = "content" \/ o.request = "content" THEN "content" ELSE "None"

\* A loop that gives up on the remaining URLs after a fetch that failed.
FetchOneStopsOnFailure ==
    /\ f_pc = "fetch"
    /\ Len(f_results) < f_urls
    /\ \E o \in FetchOutcomes :
          /\ f_results' = Append(f_results, o)
          /\ IF fetch_article(o) = "content"
             THEN /\ f_articles' = f_articles \cup {Len(f_results) + 1}
                  /\ f_pc' = f_pc
             ELSE /\ f_articles' = f_articles
                  /\ f_pc' = "summarize"
    /\ UNCHANGED f_urls
    /\ UNCHANGED <<pvars, plog, phist, pext, bvars, tvars, cvars, uvars>>

\* process_email, lines 436-440: fetch_article for the next URL; its content,
\* if any, is appended to articles.
FetchOne ==
    /\ f_pc = "fetch"
    /\ Len(f_results) < f_urls
    /\ \E o \in FetchOutcomes :
          /\ f_results' = Append(f_results, o)
          /\ f_articles' = IF fetch_article(o) = "content"
                           THEN f_articles \cup {Len(f_results) + 1}
                           ELSE f_articles
    /\ UNCHANGED <<f_pc, f_urls>>
    /\ UNCHANGED <<pvars, plog, phist, pext, bvars, tvars, cvars, uvars>>

\* process_email, lines 443-444: the loop is over, the prompt is built.
FetchDone ==
    /\ f_pc = "fetch"
    /\ Len(f_results) = f_urls
    /\ f_pc' = "summarize"
    /\ UNCHANGED <<f_urls, f_results, f_articles>>
    /\ UNCHANGED <<pvars, plog, phist, pext, bvars, tvars, cvars, uvars>>

\* process_email at line 434, with the URLs extract_article_urls returned.
InitFetch ==
    /\ InitPipeline
    /\ ExtractIdle
    /\ b_pc = "off"
    /\ BatchIdle
    /\ SendTgIdle
    /\ ConcurrentIdle
    /\ f_pc = "fetch"
    /\ f_urls \in 0..MAX_URLS
    /\ f_results = <<>>
    /\ f_articles = {}

NextFetch ==
    \/ FetchOne
    \/ FetchDone

SpecFetch == InitFetch /\ [][NextFetch]_vars

\* =================================================================== claims
\* Positions of process_email past the check of lines 414-415.
InProcess ==
    pc \in {"read", "enrich", "summarize", "fallback", "send", "mark", "add"}

\* Messages the current run has read, summarized or tried to deliver.
Processed == readCalls \cup aiCalls \cup sendOk \cup sendFail

\* C1 (as claimed): a message whose send_tg call returned False in this run is
\* not added to the seen-id set, and the store saved at run end does not
\* contain it.
C1_SeenOnlyIfDelivered ==
    \A m \in sendFail :
        /\ m \notin seen_ids
        /\ pc = "done" => m \notin stateFile

\* C2: mark_as_read is called for a message only after send_tg returned True
\* for it in the same run; it is never called for a message whose delivery
\* failed or that could not be read.
C2_MarkReadOnlyAfterDelivery ==
    /\ markCalls \subseteq sendOk
    /\ markCalls \cap (sendFail \cup readEmpty) = {}
    /\ pc = "mark" => msg_id \in sendOk

C2_Witness ==
    /\ pc = "done"
    /\ markCalls # {}
    /\ sendFail # {}

\* C3 (as claimed): a message whose delivery failed in the previous completed
\* run and that the search returns again is read again in this run.
C3_FailedDeliveryRetried ==
    pc = "done" => \A m \in prevFailed \cap Range(emails) : m \in readCalls

\* C4: for a candidate already in seen_ids, process_email never reaches the
\* read, fetch, summarize, send or mark-read positions, and its step changes
\* neither the seen-id set, the state file, the mail account nor the calls
\* made.
C4_SeenCandidateUntouched ==
    /\ [](InProcess => msg_id \notin seen_ids)
    /\ [][(pc = "loop" /\ idx <= Len(emails) /\ emails[idx] \in seen_ids)
            => UNCHANGED <<seen_ids, stateFile, unread, plog>>]_vars

C4_Witness ==
    /\ pc = "loop"
    /\ idx > 1
    /\ emails[idx - 1] \in stateFile
    /\ Processed = {}
    /\ markCalls = {}

\* C5 (as claimed): an identifier that some earlier run saved is never
\* processed by a later run.
C5_NeverProcessedOnceSaved ==
    pc # "done" => Processed \cap everSaved = {}

\* C5 (amended): an identifier held by the state file when a run loads it is
\* not processed by that run.
C5_NotProcessedWhileInFile ==
    pc # "done" => Processed \cap stateFile = {}

C5_Witness ==
    /\ pc = "loop"
    /\ idx > Len(emails)
    /\ \E k \in 1..Len(emails) : emails[k] \in stateFile
    /\ Processed # {}

\* The last n elements of a sequence.
LastN(s, n) == {s[k] : k \in {j \in 1..Len(s) : j > Len(s) - n}}

\* C6 (as claimed): a save of more than the cap's worth of identifiers leaves
\* exactly the most recently inserted ones in the file.
C6_SaveKeepsMostRecentlyInserted ==
    (pc = "done" /\ Cardinality(seen_ids) > SeenCap)
        => stateFile = LastN(order, SeenCap)

\* C7 (as claimed): in the batch variant a message is marked read only if every
\* request of the digest's delivery was accepted by the endpoint.
C7_BatchMarkOnlyIfAllAccepted ==
    b_marked # {} => \A k \in 1..Len(answers) : answers[k] = "ok"

\* C8 (as claimed): a send_tg call that split its payload returns True only if
\* every chunk was accepted.
C8_SuccessOnlyIfEveryChunkAccepted ==
    (b_ok = "True" /\ Len(parts) > 1)
        => /\ Len(answers) = Len(parts)
           /\ \A k \in 1..Len(answers) : answers[k] = "ok"

\* The chunks occur in t, one after the other, from position from on.
RECURSIVE AppearInOrder(_, _, _)
AppearInOrder(t, chunks, from) ==
    IF chunks = <<>>
    THEN TRUE
    ELSE LET c == Head(chunks)
         IN  \E p \in from..(Len(t) - Len(c) + 1) :
                /\ SubSeq(t, p, p + Len(c) - 1) = c
                /\ AppearInOrder(t, Tail(chunks), p + Len(c))

\* C9: every text send_tg posts is at most Limit long, and the texts are posted
\* in the order in which they occur in the payload.
C9_ChunksWithinLimitInOrder ==
    /\ \A k \in 1..Len(posted) : Len(posted[k]) <= Limit
    /\ AppearInOrder(payload, posted, 1)

C9_Witness ==
    /\ b_pc = "returned"
    /\ Len(posted) = 3
    /\ \E k \in 1..3 : Len(posted[k]) = Limit

\* t is the chunks in order, with nothing but newlines left out after each.
RECURSIVE Reassembles(_, _)
Reassembles(t, chunks) ==
    IF chunks = <<>>
    THEN t = <<>>
    ELSE LET c == Head(chunks)
             n == Len(c)
         IN  /\ n <= Len(t)
             /\ SubSeq(t, 1, n) = c
             /\ \E g \in 0..(Len(t) - n) :
                   /\ \A j \in 1..g : t[n + j] = NL
                   /\ Reassembles(SubSeq(t, n + g + 1, Len(t)), Tail(chunks))

RECURSIVE Concat(_)
Concat(chunks) == IF chunks = <<>> THEN <<>> ELSE Head(chunks) \o Concat(Tail(chunks))

\* C10: for a payload longer than Limit, the chunks in order are the payload
\* with only newlines at chunk boundaries left out; inside the loop the same
\* holds of the chunks so far followed by the remaining text.
C10_ChunksReassemble ==
    Len(payload) > Limit =>
        /\ b_pc = "split" => Reassembles(payload, Append(parts, text))
        /\ b_pc # "split" => Reassembles(payload, parts)

C10_Witness ==
    /\ b_pc = "returned"
    /\ Len(parts) = 3
    /\ Len(Concat(parts)) < Len(payload)
    /\ \E k \in 1..Len(payload) : payload[k] = "a"
    /\ \E k \in 1..Len(payload) : payload[k] = "b"

\* The texts of the requests the endpoint accepted, in request order.
RECURSIVE AcceptedTexts(_, _)
AcceptedTexts(posts, ans) ==
    IF posts = <<>>
    THEN <<>>
    ELSE (IF Head(ans) = "ok" THEN <<Head(posts)[2]>> ELSE <<>>)
            \o AcceptedTexts(Tail(posts), Tail(ans))

\* C11 (as claimed): when send_tg of the per-message pipeline returns True, the
\* messages the endpoint accepted are, in order, the whole payload (only
\* newlines at chunk boundaries left out).
C11_SuccessMeansWholePayload ==
    t_ok = "True" => Reassembles(t_payload, AcceptedTexts(t_posted, t_answers))

\* The calls one call_ai has made so far: the primary provider first, the
\* fallback provider only after a primary result that is no text.
CallAiOrder(ch) ==
    /\ Len(ch) <= 2
    /\ Len(ch) >= 1 => ch[1][1] = "gemini"
    /\ Len(ch) = 2 => ch[2][1] = "deepseek" /\ ch[1][2] # "text"

\* C12: in both scripts call_ai calls the primary provider first and the
\* fallback provider exactly when the primary returned no text; when it returns
\* nothing, both providers were called and both returned nothing.
C12_ProviderFallback ==
    /\ CallAiOrder(chain)
    /\ CallAiOrder(b_chain)
    /\ pc = "fallback" => Len(chain) = 1 /\ chain[1][2] # "text"
    /\ pc = "send" =>
          /\ chain # <<>>
          /\ Len(chain) = 2 <=> chain[1][2] # "text"
          /\ summary = "text" <=> Returned(chain) = "text"
          /\ summary = "empty" =>
                Len(chain) = 2 /\ chain[1][2] # "text" /\ chain[2][2] # "text"
    /\ b_pc = "fallback" => Len(b_chain) = 1 /\ b_chain[1][2] # "text"
    /\ b_pc = "summarized" =>
          /\ b_chain # <<>>
          /\ Len(b_chain) = 2 <=> b_chain[1][2] # "text"
          /\ Returned(b_chain) # "text" =>
                Len(b_chain) = 2 /\ b_chain[1][2] # "text" /\ b_chain[2][2] # "text"

C12_Witness ==
    /\ pc = "send"
    /\ chain = << <<"gemini", "empty">>, <<"deepseek", "none">> >>
    /\ summary = "empty"

\* C13: call_ai never ends the processing of a message; when it returns nothing
\* the text sent is the one built from the snippet, send_tg is called with it,
\* and mark_as_read follows exactly when send_tg returned True.
C13_EmptySummarySendsSnippet ==
    /\ []((pc = "send" /\ summary = "empty") => tg_text = "snippet")
    /\ []((pc = "mark" /\ tg_text = "snippet") => msg_id \in sendOk)
    /\ [][(pc \in {"summarize", "fallback"}) => (pc' \in {"fallback", "send"})]_vars
    /\ [][(pc = "send" /\ tg_text = "snippet") =>
            \/ pc' = "mark" /\ msg_id \in sendOk'
            \/ pc' = "add" /\ msg_id \in sendFail' /\ msg_id \notin markCalls']_vars

C13_Witness ==
    /\ pc = "mark"
    /\ summary = "empty"
    /\ tg_text = "snippet"

\* C14: a message get_email_body returned {} for is in seen_ids, and in the same
\* run nothing was fetched, summarized, sent or marked read for it.
C14_ReadEmptyGoesToSeen ==
    \A m \in readEmpty :
        /\ m \in seen_ids
        /\ m \notin fetchCalls \cup aiCalls \cup sendOk \cup sendFail \cup markCalls
        /\ InProcess => msg_id # m

C14_Witness ==
    /\ pc = "done"
    /\ readEmpty \cap stateFile # {}
    /\ sendOk # {}

\* C15 (as claimed): when the batch variant has delivered its digest and ended,
\* every message the search returned, the unreadable ones included, is recorded
\* as handled (the only record the script keeps is mark_as_read).
C15_UnreadableRecordedAsHandled ==
    (b_pc = "done" /\ purpose = "digest" /\ b_ok = "True")
        => Range(b_emails) \subseteq b_marked

\* C16 (as claimed): no step taken while one message is processed ends the run.
C16_UnitFailureNeverEndsRun ==
    [][InProcess => pc' # "crashed"]_vars

\* C17: a run without BOT_TOKEN is at sys.exit(1) having loaded, searched, read,
\* summarized, sent and marked nothing, and its step leaves the state file and
\* the mail account as they were.
C17_NoTokenAbortsBeforeAnything ==
    /\ [](~bot_token =>
            /\ pc = "exit1"
            /\ seen_ids = {} /\ loaded = {} /\ emails = <<>>
            /\ Processed \cup readEmpty \cup fetchCalls \cup markCalls = {})
    /\ [][~bot_token' => UNCHANGED <<stateFile, unread>>]_vars

C17_Witness ==
    /\ pc = "exit1"
    /\ ~bot_token
    /\ stateFile # {}
    /\ unread # {}

\* C18: with an empty search result the per-message run sends nothing, marks
\* nothing and ends with the state file holding what it loaded; the batch
\* variant posts the 'no unread' notice once, marks nothing and ends.
C18_ZeroCandidates ==
    /\ (pc \in {"loop", "done"} /\ emails = <<>>) =>
          /\ Processed \cup markCalls = {}
          /\ stateFile = loaded
    /\ (b_pc \in {"post1", "done"} /\ b_emails = <<>>) => purpose = "no_unread"
    /\ purpose = "no_unread" =>
          /\ b_emails = <<>> /\ all_emails = <<>> /\ b_marked = {}
          /\ b_pc \in {"post1", "done", "crashed"}
          /\ b_pc = "post1" => posted = <<>>
          /\ b_pc = "done" => posted = <<NoUnreadNotice>>

C18_Witness ==
    /\ pc = "done"
    /\ emails = <<>>
    /\ loaded # {}
    /\ unread # {}

\* C19: nothing ties two overlapping runs together: a run delivers whatever is
\* not in the set it loaded itself, its seen_ids holds only what it loaded and
\* what its own search returned, and the state file holds what the last run
\* to save wrote, whatever an earlier run had saved.
C19_LastSaverWins ==
    /\ c_savers # <<>> => c_file = save_seen_ids(c_seen[c_savers[Len(c_savers)]])
    /\ \A r \in Runs :
          /\ c_sent[r] \cap c_loaded[r] = {}
          /\ c_seen[r] \subseteq c_loaded[r] \cup Range(c_emails[r])

\* Both runs loaded the same file, both delivered one message, and an
\* identifier the first run saved is gone from the file.
C19_Witness ==
    /\ \A r \in Runs : c_pc[r] = "done"
    /\ c_loaded[1] = c_loaded[2]
    /\ c_sent[1] \cap c_sent[2] # {}
    /\ save_seen_ids(c_seen[c_savers[1]]) \ c_file # {}

\* C20 (as claimed): a run that was ended before or during its save leaves the
\* state file holding either the set it loaded or the set save_seen_ids writes.
C20_FileCompleteWhenInterrupted ==
    pc \in {"crashed", "killed", "torn"}
        => stateFile = loaded \/ stateFile = save_seen_ids(seen_ids)

\* The two URLs have the same (network location, path) pair.
SamePair(u, v) == u.netloc = v.netloc /\ u.path = v.path

\* The position of the first occurrence of u in body.
FirstPos(body, u) ==
    CHOOSE i \in 1..Len(body) : body[i] = u /\ \A j \in 1..(i - 1) : body[j] # u

\* No two URLs of the list have the same pair.
NoPairTwice(list) ==
    \A a, b \in 1..Len(list) : a # b => ~SamePair(list[a], list[b])

\* The URLs of the list are URLs of body, in the order of their first
\* occurrences there.
InBodyOrder(list, body) ==
    /\ Range(list) \subseteq Range(body)
    /\ \A a, b \in 1..Len(list) :
          a < b => FirstPos(body, list[a]) < FirstPos(body, list[b])

\* The positions of body whose URL passes the three filters and has the pair of
\* no earlier URL that passes them.
AcceptedPos(body) ==
    {i \in 1..Len(body) :
        /\ ~Rejected(body[i])
        /\ \A j \in 1..(i - 1) : ~Rejected(body[j]) => ~SamePair(body[j], body[i])}

\* C21 (as claimed): the list returned has no pair twice and is in body order,
\* and of the URLs of the body that share a pair and differ otherwise, the
\* first in body order is returned and no other.
C21_FirstOfPairReturned ==
    u_pc = "returned" =>
        /\ NoPairTwice(u_result)
        /\ InBodyOrder(u_result, u_body)
        /\ \A i, j \in 1..Len(u_body) :
              ( /\ i < j
                /\ SamePair(u_body[i], u_body[j])
                /\ u_body[i] # u_body[j]
                /\ \A h \in 1..(i - 1) : ~SamePair(u_body[h], u_body[i]) )
              => /\ u_body[i] \in Range(u_result)
                 /\ u_body[j] \notin Range(u_result)

\* C21 (amended): the list returned has no pair twice and is in body order; a
\* URL returned passes the filters and comes before every other URL of its
\* pair that passes them; and the first such URL of a pair is returned when
\* fewer than the cap's worth of accepted URLs come before it.
C21_FirstAcceptedOfPairReturned ==
    u_pc = "returned" =>
        /\ NoPairTwice(u_result)
        /\ InBodyOrder(u_result, u_body)
        /\ \A k \in 1..Len(u_result) :
              /\ ~Rejected(u_result[k])
              /\ \A j \in 1..Len(u_body) :
                    (~Rejected(u_body[j]) /\ SamePair(u_body[j], u_result[k]))
                        => FirstPos(u_body, u_result[k]) <= j
        /\ \A i \in AcceptedPos(u_body) :
              Cardinality({j \in AcceptedPos(u_body) : j < i}) < UrlCap(u_script)
                  => u_body[i] \in Range(u_result)

C21_Witness ==
    /\ u_pc = "returned"
    /\ \E i, j \in 1..Len(u_body) :
          /\ i < j
          /\ SamePair(u_body[i], u_body[j])
          /\ u_body[i] # u_body[j]
          /\ ~Rejected(u_body[i]) /\ ~Rejected(u_body[j])
          /\ u_body[i] \in Range(u_result)
          /\ u_body[j] \notin Range(u_result)

\* C22 (as claimed): no two URLs returned have network locations and paths that
\* are equal up to letter case.
C22_DedupIgnoresCase ==
    u_pc = "returned" =>
        \A a, b \in 1..Len(u_result) :
            a # b => ~( /\ Lower(u_result[a].netloc) = Lower(u_result[b].netloc)
                        /\ Lower(u_result[a].path) = Lower(u_result[b].path) )

\* The n-th least element of a set of numbers.
NthOf(S, n) == CHOOSE i \in S : Cardinality({j \in S : j < i}) = n - 1

\* The URLs at the first cap accepted positions of body, in order.
FirstAccepted(body, cap) ==
    LET S == AcceptedPos(body)
        n == IF Cardinality(S) < cap THEN Cardinality(S) ELSE cap
    IN  [k \in 1..n |-> body[NthOf(S, k)]]

\* C23: the list returned is the first K accepted URLs of the body (3 in
\* gmail-digest.py, 2 in gmail-digest-all.py), all of them when there are
\* fewer; rejected URLs and duplicates take no place under the cap.
C23_FirstKAccepted ==
    u_pc = "returned" => u_result = FirstAccepted(u_body, UrlCap(u_script))

C23_Witness ==
    /\ u_pc = "returned"
    /\ u_script = "digest"
    /\ Len(u_body) = MAX_URLS + 1
    /\ Rejected(u_body[1])
    /\ Len(u_result) = MAX_URLS
    /\ u_result[MAX_URLS] = u_body[Len(u_body)]

\* C24: the article loop always reaches the summarizer, having called
\* fetch_article for every URL whatever the earlier calls returned, with the
\* URLs that gave a content as its articles.
C24_EnrichmentBestEffort ==
    /\ f_pc \in {"off", "fetch", "summarize"}
    /\ Len(f_results) <= f_urls
    /\ f_pc = "summarize" => Len(f_results) = f_urls
    /\ f_articles = {k \in 1..Len(f_results) : fetch_article(f_results[k]) = "content"}

C24_Witness ==
    /\ f_pc = "summarize"
    /\ f_urls = MAX_URLS
    /\ f_articles = {}
    /\ \E k \in 1..Len(f_results) : f_results[k].medium

\* C25: one send_tg call makes at most two requests, the plain-text one only
\* after the HTML one was rejected, and returns True exactly when one of them
\* was accepted; in a run, send_tg is called for a message for which no
\* send_tg call was made before.
C25_AtMostOneRetry ==
    /\ Len(t_posted) <= 2
    /\ Len(t_posted) >= 1 => t_posted[1][1] = "HTML"
    /\ Len(t_posted) = 2 => t_posted[2][1] = "plain" /\ t_answers[1] = "rejected"
    /\ t_pc = "returned" =>
          (t_ok = "True" <=> \E k \in 1..Len(t_answers) : t_answers[k] = "ok")
    /\ pc = "send" => msg_id \notin sendOk \cup sendFail
    /\ sendOk \cap sendFail = {}

C25_Witness ==
    /\ t_pc = "returned"
    /\ t_answers = <<"rejected", "ok">>
    /\ t_ok = "True"

C27_StagesInOrder ==
    /\ InProcess =>
          /\ msg_id = emails[idx]
          /\ msg_id \notin seen_ids
          /\ msg_id \in readCalls <=> pc # "read"
          /\ msg_id \in fetchCalls => pc \notin {"read", "enrich"}
          /\ msg_id \in aiCalls <=> pc \in {"fallback", "send", "mark", "add"}
          /\ msg_id \in sendOk \cup sendFail <=> pc \in {"mark", "add"}
          /\ msg_id \in markCalls <=> (pc = "add" /\ msg_id \in sendOk)
    /\ \A m \in Processed \cup fetchCalls \cup markCalls :
          m # msg_id => m \in seen_ids
    /\ pc = "loop" => msg_id = 0

C27_Witness ==
    /\ pc = "add"
    /\ idx = 2
    /\ msg_id \in fetchCalls \cap markCalls
    /\ emails[1] \in markCalls

\* C28: every chunk of the splitting loop is non-empty and every iteration
\* takes at least MinCut characters off the text, so the loop ends after at
\* most Len(payload) / MinCut iterations.
C28_SplitLoopShortens ==
    /\ \A k \in 1..Len(parts) : parts[k] # <<>>
    /\ b_pc = "split" =>
          /\ text # <<>>
          /\ Len(text) + MinCut * Len(parts) <= Len(payload)

C28_Witness ==
    /\ b_pc = "returned"
    /\ Len(parts) = 3
    /\ payload[1] = NL
    /\ \A k \in 2..Len(payload) : payload[k] # NL

\* C29: when call_ai returns nothing in the batch variant, the failure notice
\* and nothing else goes to send_tg, once, and no message is marked read
\* whatever send_tg returns.
C29_FailureNoticeOnly ==
    /\ [](purpose = "failed" =>
            /\ payload = FailureNotice
            /\ b_marked = {}
            /\ b_pc \in {"post1", "done", "crashed"}
            /\ b_pc = "post1" => posted = <<>>
            /\ b_pc = "done" => posted = <<FailureNotice>>)
    /\ [][(b_pc = "summarized" /\ Returned(b_chain) # "text")
            => (purpose' = "failed" /\ payload' = FailureNotice)]_vars

C29_Witness ==
    /\ purpose = "failed"
    /\ b_pc = "done"
    /\ b_ok = "True"
    /\ all_emails # <<>>

====
